---- MODULE Spec2Model ----
(***************************************************************************)
(* Model of the planning_trees search engine:                              *)
(*   PathQueue  (path_queue.cpp)  - the bounded frontier                   *)
(*   TreeSearch (tree_search.cpp) - filterLocal, triangulate, getPath      *)
(*                                                                         *)
(* Numbers.  Every coordinate the program computes from integer cone       *)
(* positions and an integer triangulation radius has the form              *)
(*      a + b * (sqrt(2)/2)      with a, b integers,                       *)
(* because cos and sin of i*pi/4 are 0, +-1 or +-sqrt(2)/2.  A coordinate  *)
(* is the pair <<a, b>>; comparisons of distances are decided exactly on   *)
(* twice the squared distance, which has the form U + V*sqrt(2).           *)
(*                                                                         *)
(* Angles.  An angle is an integer code in units of pi/8 used as a         *)
(* classification: an even code 2k is exactly k*pi/4, an odd code 2k+1 is  *)
(* some angle strictly between k*pi/4 and (k+1)*pi/4.  Headings and        *)
(* fields of view are multiples of pi/4 resp. pi/2, so that subtracting a  *)
(* heading and comparing with field_of_view/2 are exact on the codes.      *)
(***************************************************************************)
EXTENDS Integers, Sequences, FiniteSets, TLC

(***************************************************************************)
(* Bounds of the model                                                     *)
(***************************************************************************)
MaxCones == 1
MaxQueueLimit == 2
MaxIterations == 2
MaxWaypointsPerPath == 1
MaxWeight == 1
MaxGarbageLen == 1
MaxGeometryCones == 2

(***************************************************************************)
(* Program constants                                                       *)
(***************************************************************************)
\* std::numeric_limits<float>::infinity(): larger than every cost getCost yields
Infinity == 1000000
\* M_PI in units of pi/8
Pi == 8
\* the 8 candidates triangulate proposes around a cone
RingSize == 8
\* the heading of a Waypoint built from coordinates alone, Waypoint(x, y)
DefaultHeading == 0

(***************************************************************************)
(* Exact arithmetic on a + b*sqrt(2)/2                                     *)
(***************************************************************************)
Num(n) == <<n, 0>>

NumSub(p, q) == <<p[1] - q[1], p[2] - q[2]>>

NumAdd(p, q) == <<p[1] + q[1], p[2] + q[2]>>

\* the sign of p + q*sqrt(2), p and q integers
SignSqrt2(p, q) ==
  IF p = 0 /\ q = 0 THEN 0
  ELSE IF p >= 0 /\ q >= 0 THEN 1
  ELSE IF p <= 0 /\ q <= 0 THEN -1
  ELSE IF p > 0 THEN (IF p * p > 2 * q * q THEN 1 ELSE -1)
  ELSE (IF 2 * q * q > p * p THEN 1 ELSE -1)

\* the sign of a + b*sqrt(2)/2
NumSign(n) == SignSqrt2(2 * n[1], n[2])

NumAbs(n) == IF NumSign(n) < 0 THEN <<-n[1], -n[2]>> ELSE n

\* twice dx*dx + dy*dy, as <<U, V>> standing for U + V*sqrt(2)
TwiceSquaredNorm(dx, dy) ==
  << 2 * dx[1] * dx[1] + dx[2] * dx[2] + 2 * dy[1] * dy[1] + dy[2] * dy[2],
     2 * dx[1] * dx[2] + 2 * dy[1] * dy[2] >>

\* sqrt(dx*dx + dy*dy) <= d, for an integer d
DistLeq(dx, dy, d) ==
  LET n == TwiceSquaredNorm(dx, dy)
  IN  d >= 0 /\ SignSqrt2(n[1] - 2 * d * d, n[2]) <= 0

\* sqrt(dx*dx + dy*dy) = d, for an integer d
DistEq(dx, dy, d) ==
  LET n == TwiceSquaredNorm(dx, dy)
  IN  d >= 0 /\ SignSqrt2(n[1] - 2 * d * d, n[2]) = 0

\* sqrt(dx*dx + dy*dy) > d, for an integer d
DistGreater(dx, dy, d) == ~DistLeq(dx, dy, d)

\* atan2(dy, dx) as an angle code
Atan2(dy, dx) ==
  LET sx == NumSign(dx)
      sy == NumSign(dy)
      c  == NumSign(NumSub(NumAbs(dy), NumAbs(dx)))
      up == IF sx > 0 THEN (IF c < 0 THEN 1 ELSE IF c = 0 THEN 2 ELSE 3)
            ELSE IF sx = 0 THEN 4
            ELSE (IF c > 0 THEN 5 ELSE IF c = 0 THEN 6 ELSE 7)
  IN  IF sy = 0 THEN (IF sx >= 0 THEN 0 ELSE Pi)
      ELSE IF sy > 0 THEN up
      ELSE -up

\* radius * cos(i * M_PI / 4)
RadiusCos(radius, i) ==
  CASE i = 0 -> <<radius, 0>>
    [] i = 1 -> <<0, radius>>
    [] i = 2 -> <<0, 0>>
    [] i = 3 -> <<0, -radius>>
    [] i = 4 -> <<-radius, 0>>
    [] i = 5 -> <<0, -radius>>
    [] i = 6 -> <<0, 0>>
    [] i = 7 -> <<0, radius>>

\* radius * sin(i * M_PI / 4)
RadiusSin(radius, i) ==
  CASE i = 0 -> <<0, 0>>
    [] i = 1 -> <<0, radius>>
    [] i = 2 -> <<radius, 0>>
    [] i = 3 -> <<0, radius>>
    [] i = 4 -> <<0, 0>>
    [] i = 5 -> <<0, -radius>>
    [] i = 6 -> <<-radius, 0>>
    [] i = 7 -> <<0, -radius>>

Abs(a) == IF a < 0 THEN -a ELSE a

(***************************************************************************)
(* TreeSearch::filterLocal                                                 *)
(***************************************************************************)
\* the angle of a point seen from the pose, after the two normalisation steps
NormalizedAngle(dx, dy, heading) ==
  LET angle  == Atan2(dy, dx) - heading
      angle1 == IF angle < -Pi THEN angle + 2 * Pi ELSE angle
  IN  IF angle1 > Pi THEN angle1 - 2 * Pi ELSE angle1

\* the acceptance test with < for <= on the angle
InLocalView_StrictAngle(px, py, field_of_view, distance, x, y, heading) ==
  LET dx == NumSub(px, x)
      dy == NumSub(py, y)
  IN  /\ Abs(NormalizedAngle(dx, dy, heading)) < field_of_view \div 2
      /\ DistLeq(dx, dy, distance)

\* the acceptance test of one point
InLocalView(px, py, field_of_view, distance, x, y, heading) ==
  LET dx == NumSub(px, x)
      dy == NumSub(py, y)
  IN  /\ Abs(NormalizedAngle(dx, dy, heading)) <= field_of_view \div 2
      /\ DistLeq(dx, dy, distance)

RECURSIVE FilterPoints(_, _, _, _, _, _)
\* filterLocal over std::vector<Point>
FilterPoints(points, field_of_view, distance, x, y, heading) ==
  IF points = <<>> THEN <<>>
  ELSE LET p == Head(points)
           rest == FilterPoints(Tail(points), field_of_view, distance, x, y, heading)
       IN  IF InLocalView(p[1], p[2], field_of_view, distance, x, y, heading)
           THEN <<p>> \o rest
           ELSE rest

RECURSIVE FilterCones(_, _, _, _, _, _)
\* filterLocal over std::vector<Cone>
FilterCones(points, field_of_view, distance, x, y, heading) ==
  IF points = <<>> THEN <<>>
  ELSE LET p == Head(points)
           rest == FilterCones(Tail(points), field_of_view, distance, x, y, heading)
       IN  IF InLocalView(p.x, p.y, field_of_view, distance, x, y, heading)
           THEN <<p>> \o rest
           ELSE rest

\* the overload without a pose: origin (0, 0), heading 0
FilterConesGlobal(points, field_of_view, distance) ==
  FilterCones(points, field_of_view, distance, Num(0), Num(0), 0)

(***************************************************************************)
(* TreeSearch::triangulate                                                 *)
(***************************************************************************)
\* the cone test with >= for >
FarFromCones_Inclusive(x, y, cs, min_cone_dist) ==
  \A n \in 1..Len(cs) :
     \/ DistGreater(NumSub(x, cs[n].x), NumSub(y, cs[n].y), min_cone_dist)
     \/ DistEq(NumSub(x, cs[n].x), NumSub(y, cs[n].y), min_cone_dist)

\* closest_cone_dist > min_cone_dist, closest_cone_dist the minimum over the cones
FarFromCones(x, y, cs, min_cone_dist) ==
  \A n \in 1..Len(cs) :
     DistGreater(NumSub(x, cs[n].x), NumSub(y, cs[n].y), min_cone_dist)

\* closest_waypoint_dist > min_waypoint_dist, the minimum over the accepted
\* waypoints, infinity when there is none
FarFromWaypoints(x, y, wps, min_waypoint_dist) ==
  \A n \in 1..Len(wps) :
     DistGreater(NumSub(x, wps[n][1]), NumSub(y, wps[n][2]), min_waypoint_dist)

RECURSIVE TriangulateRing(_, _, _, _, _, _, _)
\* the inner loop: candidates i .. 7 around one cone, wps accepted so far
TriangulateRing(cone, i, wps, cs, radius, min_cone_dist, min_waypoint_dist) ==
  IF i >= RingSize THEN wps
  ELSE LET x == NumAdd(cone.x, RadiusCos(radius, i))
           y == NumAdd(cone.y, RadiusSin(radius, i))
           acc == IF /\ FarFromCones(x, y, cs, min_cone_dist)
                     /\ FarFromWaypoints(x, y, wps, min_waypoint_dist)
                  THEN Append(wps, <<x, y>>)
                  ELSE wps
       IN  TriangulateRing(cone, i + 1, acc, cs, radius, min_cone_dist,
                           min_waypoint_dist)

RECURSIVE TriangulateFrom(_, _, _, _, _, _)
\* the outer loop: cones n .. of cs, wps accepted so far
TriangulateFrom(n, wps, cs, radius, min_cone_dist, min_waypoint_dist) ==
  IF n > Len(cs) THEN wps
  ELSE TriangulateFrom(n + 1,
         TriangulateRing(cs[n], 0, wps, cs, radius, min_cone_dist,
                         min_waypoint_dist),
         cs, radius, min_cone_dist, min_waypoint_dist)

triangulate(cs, radius, min_cone_dist, min_waypoint_dist) ==
  TriangulateFrom(1, <<>>, cs, radius, min_cone_dist, min_waypoint_dist)

(***************************************************************************)
(* Waypoint and Path (path.h, waypoint.h): value operations                *)
(***************************************************************************)
\* Waypoint(x, y)
Waypoint(x, y) == [x |-> x, y |-> y, heading |-> DefaultHeading]

\* Path::hasWaypoint: membership by position
hasWaypoint(wps, w) ==
  \E n \in 1..Len(wps) : wps[n].x = w.x /\ wps[n].y = w.y

\* Path::addWaypoint(x, y)
addWaypoint(wps, x, y) == Append(wps, Waypoint(x, y))

\* the index of a point in the pool, 0 when it is not in it
RECURSIVE PoolIndex(_, _, _)
PoolIndex(pool, x, y) ==
  IF pool = <<>> THEN 0
  ELSE IF pool[Len(pool)][1] = x /\ pool[Len(pool)][2] = y THEN Len(pool)
  ELSE PoolIndex(SubSeq(pool, 1, Len(pool) - 1), x, y)

\* Path::getCost: the cost oracle, here the sum of the weights of the
\* waypoints of the path; deterministic and monotone under append
RECURSIVE getCost(_, _, _)
getCost(wps, pool, w) ==
  IF wps = <<>> THEN 0
  ELSE LET n == PoolIndex(pool, wps[Len(wps)].x, wps[Len(wps)].y)
       IN  getCost(SubSeq(wps, 1, Len(wps) - 1), pool, w)
           + (IF n = 0 THEN 0 ELSE w[n])

(***************************************************************************)
(* PathQueue (path_queue.cpp).  Indices are 1-based here: index n stands   *)
(* for the program's index n - 1.                                          *)
(***************************************************************************)
RECURSIVE WorstFrom(_, _, _)
WorstFrom(cs, i, worst_path_index) ==
  IF i > Len(cs) THEN worst_path_index
  ELSE WorstFrom(cs, i + 1,
                 IF cs[i] > cs[worst_path_index] THEN i ELSE worst_path_index)

RECURSIVE WorstFromLast(_, _, _)
WorstFromLast(cs, i, worst_path_index) ==
  IF i > Len(cs) THEN worst_path_index
  ELSE WorstFromLast(cs, i + 1,
                     IF cs[i] >= cs[worst_path_index] THEN i ELSE worst_path_index)

\* getWorstPath with >= for >: the last of the worst entries
getWorstPath_LastOnTies(cs) == WorstFromLast(cs, 1, 1)

getWorstPath(cs) == WorstFrom(cs, 1, 1)

RECURSIVE BestFrom(_, _, _)
BestFrom(cs, i, best_path_index) ==
  IF i > Len(cs) THEN best_path_index
  ELSE BestFrom(cs, i + 1,
                IF cs[i] < cs[best_path_index] THEN i ELSE best_path_index)

getBestPath(cs) == BestFrom(cs, 1, 1)

\* addNewPath without the capacity test: always appends
addNewPath_NoLimit(ps, cs, PATH_QUEUE_LIMIT, new_path_ptr, new_cost_arg) ==
  [paths |-> Append(ps, new_path_ptr),
   costs |-> Append(cs, new_cost_arg),
   ret   |-> TRUE]

\* addNewPath putting a new entry at the front of a queue that is not full
addNewPath_PushFront(ps, cs, PATH_QUEUE_LIMIT, new_path_ptr, new_cost_arg) ==
  IF Len(ps) >= PATH_QUEUE_LIMIT
  THEN LET worst_path_index == getWorstPath(cs)
       IN  IF cs[worst_path_index] > new_cost_arg
           THEN [paths |-> [ps EXCEPT ![worst_path_index] = new_path_ptr],
                 costs |-> [cs EXCEPT ![worst_path_index] = new_cost_arg],
                 ret   |-> TRUE]
           ELSE [paths |-> ps, costs |-> cs, ret |-> FALSE]
  ELSE [paths |-> <<new_path_ptr>> \o ps,
        costs |-> <<new_cost_arg>> \o cs,
        ret   |-> TRUE]

\* addNewPath writing the worst entry before it compares the costs
addNewPath_WriteOnReject(ps, cs, PATH_QUEUE_LIMIT, new_path_ptr, new_cost_arg) ==
  IF Len(ps) >= PATH_QUEUE_LIMIT
  THEN LET worst_path_index == getWorstPath(cs)
       IN  [paths |-> [ps EXCEPT ![worst_path_index] = new_path_ptr],
            costs |-> [cs EXCEPT ![worst_path_index] = new_cost_arg],
            ret   |-> cs[worst_path_index] > new_cost_arg]
  ELSE [paths |-> Append(ps, new_path_ptr),
        costs |-> Append(cs, new_cost_arg),
        ret   |-> TRUE]

\* the outcome of addNewPath on the queue (ps, cs): the new queue and the
\* value returned
addNewPath(ps, cs, PATH_QUEUE_LIMIT, new_path_ptr, new_cost_arg) ==
  IF Len(ps) >= PATH_QUEUE_LIMIT
  THEN LET worst_path_index == getWorstPath(cs)
       IN  IF cs[worst_path_index] > new_cost_arg
           THEN [paths |-> [ps EXCEPT ![worst_path_index] = new_path_ptr],
                 costs |-> [cs EXCEPT ![worst_path_index] = new_cost_arg],
                 ret   |-> TRUE]
           ELSE [paths |-> ps, costs |-> cs, ret |-> FALSE]
  ELSE [paths |-> Append(ps, new_path_ptr),
        costs |-> Append(cs, new_cost_arg),
        ret   |-> TRUE]

(***************************************************************************)
(* State                                                                   *)
(***************************************************************************)
VARIABLES
  cones,                    \* TreeSearch::cones
  waypoints,                \* TreeSearch::waypoints, the pool
  params,                   \* TreeSearch::params
  weights,                  \* the cost oracle: the weight of each pool point
  paths,                    \* PathQueue::paths, a sequence of Path pointers
  costs,                    \* PathQueue::costs
  new_path,                 \* the storage of the local new_path of getPath
  new_cost,                 \* getPath: new_cost
  added_path,               \* getPath: added_path
  i, j, size, k,            \* getPath: loop variables and the round's size
  no_new_paths,             \* getPath: no_new_paths
  added_point,              \* getPath: added_point
  curr_path,                \* getPath: curr_path, a Path pointer
  curr_cost,                \* getPath: curr_cost
  possible_next_waypoints,  \* getPath: possible_next_waypoints
  best_path_index,          \* getPath: best_path_index (1-based)
  result,                   \* the Path getPath returns
  pc,                       \* the position in getPath
  round_paths,              \* history: path_queue.paths when the round began
  round_costs,              \* history: path_queue.costs when the round began
  run,                      \* the caller: which call of getPath this is
  first_result              \* the caller: what the first call returned

vars == << cones, waypoints, params, weights, paths, costs, new_path, new_cost,
           added_path, i, j, size, k, no_new_paths, added_point, curr_path,
           curr_cost, possible_next_waypoints, best_path_index, result, pc,
           run, first_result, round_paths, round_costs >>

\* the queue as it was when the current round began (history)
snapshot == << round_paths, round_costs >>

\* what no step of getPath changes: the TreeSearch object (fixed once it is
\* built), the cost oracle and the caller's variables
object == << cones, waypoints, params, weights, run, first_result >>

(***************************************************************************)
(* Path pointers.  A pointer holds the address of start_path or of the     *)
(* local new_path; born records the round in which the pointer was handed  *)
(* to the queue as a branch (-1 for start_path).                           *)
(***************************************************************************)
\* Path start_path = Path(): the empty path
start_path == <<>>

StartPathPtr == [addr |-> "start_path", born |-> -1]

NewPathPtr(round) == [addr |-> "new_path", born |-> round]

NoPathPtr == [addr |-> "none", born |-> -1]

\* the pointer refers to an object whose lifetime has ended
IsDangling(p) == p.addr = "new_path" /\ ~new_path.alive

\* the waypoints stored at the address the pointer holds
StoredWaypoints(p) == IF p.addr = "start_path" THEN start_path ELSE new_path.wps

(***************************************************************************)
(* Reads through a Path pointer.  A read of an object that is alive yields *)
(* its value; a read through a dangling pointer, and back() of an empty    *)
(* vector, is undefined: it yields any value of the type (or traps, see    *)
(* Trap).  What the storage of a destroyed new_path holds is not kept.     *)
(***************************************************************************)
GarbageHeadings == {0, Pi}

PoolWaypoints ==
  {Waypoint(waypoints[n][1], waypoints[n][2]) : n \in 1..Len(waypoints)}

GarbagePaths == UNION {[1..n -> PoolWaypoints] : n \in 0..MaxGarbageLen}

GarbagePoses ==
  {[x |-> w.x, y |-> w.y, heading |-> h] :
     w \in PoolWaypoints \cup {Waypoint(Num(0), Num(0))}, h \in GarbageHeadings}

\* curr_path->waypoints.size() > max_waypoints_per_path
ReadSizeExceeds(p, max_waypoints_per_path) ==
  IF IsDangling(p) THEN BOOLEAN
  ELSE {Len(StoredWaypoints(p)) > max_waypoints_per_path}

\* &curr_path->waypoints.back()
ReadBack(p) ==
  LET wps == StoredWaypoints(p)
  IN  IF ~IsDangling(p) /\ wps # <<>> THEN {wps[Len(wps)]}
      ELSE GarbagePoses

\* curr_path->hasWaypoint(w)
ReadHasWaypoint(p, w) ==
  IF IsDangling(p) THEN BOOLEAN ELSE {hasWaypoint(StoredWaypoints(p), w)}

\* curr_path->createCopy()
ReadCreateCopy(p) ==
  IF IsDangling(p) THEN GarbagePaths ELSE {StoredWaypoints(p)}

(***************************************************************************)
(* Init: a TreeSearch built by its constructor, getPath not yet called     *)
(***************************************************************************)
ConeDomain == {[x |-> Num(0), y |-> Num(0)]}

ConeSeqs == UNION {[1..n -> ConeDomain] : n \in 0..MaxCones}

ParamsDomain ==
  [ field_of_view                   : {2 * Pi},
    distance                        : {2},
    triangulation_radius            : {1},
    triangulation_min_cone_dist     : {0},
    triangulation_min_waypoint_dist : {1, 2},
    path_queue_limit                : 1..MaxQueueLimit,
    max_search_iterations           : 0..MaxIterations,
    max_waypoints_per_path          : 0..MaxWaypointsPerPath,
    waypoint_field_of_view          : {Pi, 2 * Pi},
    waypoint_distance               : {1, 2} ]

\* TreeSearch::TreeSearch(cones, params)
Init ==
  /\ params \in ParamsDomain
  /\ \E cs \in ConeSeqs :
       cones = FilterConesGlobal(cs, params.field_of_view, params.distance)
  /\ waypoints = triangulate(cones, params.triangulation_radius,
                             params.triangulation_min_cone_dist,
                             params.triangulation_min_waypoint_dist)
  /\ weights \in [1..Len(waypoints) -> 0..MaxWeight]
  /\ paths = <<>>
  /\ costs = <<>>
  /\ new_path = [wps |-> <<>>, alive |-> FALSE]
  /\ new_cost = 0
  /\ added_path = FALSE
  /\ i = 0
  /\ j = 0
  /\ size = 0
  /\ k = 0
  /\ no_new_paths = FALSE
  /\ added_point = FALSE
  /\ curr_path = NoPathPtr
  /\ curr_cost = 0
  /\ possible_next_waypoints = <<>>
  /\ best_path_index = 0
  /\ result = <<>>
  /\ pc = "call"
  /\ run = 1
  /\ first_result = <<>>
  /\ round_paths = <<>>
  /\ round_costs = <<>>

(***************************************************************************)
(* TreeSearch::getPath, one action per step                                *)
(***************************************************************************)
\* the outer loop's test with <= for <
RoundAllowed_OffByOne(round, max_search_iterations) ==
  round <= max_search_iterations

\* the outer loop's test: i < params.max_search_iterations
RoundAllowed(round, max_search_iterations) == round < max_search_iterations

\* the coordinates getPath appends for the k-th visible candidate (k from 0)
BranchPoint(pool, possible, kk) == pool[kk + 1]

\* PathQueue path_queue(limit); Path start_path; addNewPath(&start_path, inf)
GetPathStart ==
  /\ pc = "call"
  /\ LET r == addNewPath(<<>>, <<>>, params.path_queue_limit, StartPathPtr, Infinity)
     IN  /\ paths' = r.paths
         /\ costs' = r.costs
  /\ i' = 0
  /\ pc' = "round"
  /\ UNCHANGED << object, new_path, new_cost, added_path, j, size, k,
                  no_new_paths, added_point, curr_path, curr_cost,
                  possible_next_waypoints, best_path_index, result >>
  /\ UNCHANGED snapshot

\* a round begins: no_new_paths = true, size = paths.size(), j = 0
RoundStart ==
  /\ pc = "round"
  /\ RoundAllowed(i, params.max_search_iterations)
  /\ no_new_paths' = TRUE
  /\ size' = Len(paths)
  /\ j' = 0
  /\ pc' = "entry"
  /\ UNCHANGED << object, paths, costs, new_path, new_cost, added_path, i, k,
                  added_point, curr_path, curr_cost, possible_next_waypoints,
                  best_path_index, result >>
  /\ round_paths' = paths
  /\ round_costs' = costs

\* the outer loop ends because i reached max_search_iterations
RoundsExhausted ==
  /\ pc = "round"
  /\ ~RoundAllowed(i, params.max_search_iterations)
  /\ pc' = "select"
  /\ UNCHANGED << object, paths, costs, new_path, new_cost, added_path, i, j,
                  size, k, no_new_paths, added_point, curr_path, curr_cost,
                  possible_next_waypoints, best_path_index, result >>
  /\ UNCHANGED snapshot

\* curr_path = paths.front(); curr_cost = costs.front(); erase both
Dequeue ==
  /\ pc = "entry"
  /\ j < size
  /\ paths # <<>>
  /\ curr_path' = Head(paths)
  /\ curr_cost' = Head(costs)
  /\ paths' = Tail(paths)
  /\ costs' = Tail(costs)
  /\ pc' = "expand"
  /\ UNCHANGED << object, new_path, new_cost, added_path, i, j, size, k,
                  no_new_paths, added_point, possible_next_waypoints,
                  best_path_index, result >>
  /\ UNCHANGED snapshot

\* the path is over max_waypoints_per_path: put it back and continue
ReinsertCapped ==
  /\ pc = "expand"
  /\ TRUE \in ReadSizeExceeds(curr_path, params.max_waypoints_per_path)
  /\ LET r == addNewPath(paths, costs, params.path_queue_limit, curr_path, curr_cost)
     IN  /\ paths' = r.paths
         /\ costs' = r.costs
  /\ j' = j + 1
  /\ curr_path' = NoPathPtr
  /\ curr_cost' = 0
  /\ pc' = "entry"
  /\ UNCHANGED << object, new_path, new_cost, added_path, i, size, k,
                  no_new_paths, added_point, possible_next_waypoints,
                  best_path_index, result >>
  /\ UNCHANGED snapshot

\* last_waypoint = &curr_path->waypoints.back(); filterLocal around it
Expand ==
  /\ pc = "expand"
  /\ FALSE \in ReadSizeExceeds(curr_path, params.max_waypoints_per_path)
  /\ \E last_waypoint \in ReadBack(curr_path) :
       possible_next_waypoints' =
         FilterPoints(waypoints, params.waypoint_field_of_view,
                      params.waypoint_distance, last_waypoint.x,
                      last_waypoint.y, last_waypoint.heading)
  /\ added_point' = FALSE
  /\ k' = 0
  /\ pc' = "branch"
  /\ UNCHANGED << object, paths, costs, new_path, new_cost, added_path, i, j,
                  size, no_new_paths, curr_path, curr_cost, best_path_index,
                  result >>
  /\ UNCHANGED snapshot

\* the k-th visible candidate is already in curr_path: continue
SkipCandidate ==
  /\ pc = "branch"
  /\ k < Len(possible_next_waypoints)
  /\ TRUE \in ReadHasWaypoint(curr_path,
                 Waypoint(possible_next_waypoints[k + 1][1],
                          possible_next_waypoints[k + 1][2]))
  /\ k' = k + 1
  /\ UNCHANGED << object, paths, costs, new_path, new_cost, added_path, i, j,
                  size, no_new_paths, added_point, curr_path, curr_cost,
                  possible_next_waypoints, best_path_index, result, pc >>
  /\ UNCHANGED snapshot

\* new_path = copy of curr_path plus one waypoint; addNewPath(&new_path, cost)
Branch ==
  /\ pc = "branch"
  /\ k < Len(possible_next_waypoints)
  /\ FALSE \in ReadHasWaypoint(curr_path,
                  Waypoint(possible_next_waypoints[k + 1][1],
                           possible_next_waypoints[k + 1][2]))
  /\ \E copy \in ReadCreateCopy(curr_path) :
       LET pt  == BranchPoint(waypoints, possible_next_waypoints, k)
           wps == addWaypoint(copy, pt[1], pt[2])
           c   == getCost(wps, waypoints, weights)
           r   == addNewPath(paths, costs, params.path_queue_limit,
                             NewPathPtr(i), c)
       IN  /\ new_path' = [wps |-> wps, alive |-> TRUE]
           /\ new_cost' = c
           /\ paths' = r.paths
           /\ costs' = r.costs
           /\ added_path' = r.ret
           /\ no_new_paths' = (IF r.ret THEN FALSE ELSE no_new_paths)
           /\ added_point' = (IF r.ret THEN TRUE ELSE added_point)
  /\ pc' = "branched"
  /\ UNCHANGED << object, i, j, size, k, curr_path, curr_cost,
                  possible_next_waypoints, best_path_index, result >>
  /\ UNCHANGED snapshot

\* the loop body ends: new_path goes out of scope, k++
EndBranch ==
  /\ pc = "branched"
  /\ new_path' = [wps |-> <<>>, alive |-> FALSE]
  /\ new_cost' = 0
  /\ added_path' = FALSE
  /\ k' = k + 1
  /\ pc' = "branch"
  /\ UNCHANGED << object, paths, costs, i, j, size, no_new_paths, added_point,
                  curr_path, curr_cost, possible_next_waypoints,
                  best_path_index, result >>
  /\ UNCHANGED snapshot

\* the end of the k loop without the reinsertion
Reinsert_Dropped ==
  /\ pc = "branch"
  /\ ~(k < Len(possible_next_waypoints))
  /\ ~added_point
  /\ j' = j + 1
  /\ k' = 0
  /\ curr_path' = NoPathPtr
  /\ curr_cost' = 0
  /\ possible_next_waypoints' = <<>>
  /\ pc' = "entry"
  /\ UNCHANGED << object, paths, costs, new_path, new_cost, added_path, i,
                  size, no_new_paths, added_point, best_path_index, result >>
  /\ UNCHANGED snapshot

\* no branch of curr_path was accepted: put curr_path back
Reinsert ==
  /\ pc = "branch"
  /\ ~(k < Len(possible_next_waypoints))
  /\ ~added_point
  /\ LET r == addNewPath(paths, costs, params.path_queue_limit, curr_path, curr_cost)
     IN  /\ paths' = r.paths
         /\ costs' = r.costs
  /\ j' = j + 1
  /\ k' = 0
  /\ curr_path' = NoPathPtr
  /\ curr_cost' = 0
  /\ possible_next_waypoints' = <<>>
  /\ pc' = "entry"
  /\ UNCHANGED << object, new_path, new_cost, added_path, i, size,
                  no_new_paths, added_point, best_path_index, result >>
  /\ UNCHANGED snapshot

\* some branch of curr_path was accepted: curr_path is dropped
DropExpanded ==
  /\ pc = "branch"
  /\ ~(k < Len(possible_next_waypoints))
  /\ added_point
  /\ j' = j + 1
  /\ k' = 0
  /\ added_point' = FALSE
  /\ curr_path' = NoPathPtr
  /\ curr_cost' = 0
  /\ possible_next_waypoints' = <<>>
  /\ pc' = "entry"
  /\ UNCHANGED << object, paths, costs, new_path, new_cost, added_path, i,
                  size, no_new_paths, best_path_index, result >>
  /\ UNCHANGED snapshot

\* the round ends with no_new_paths: break
Converged ==
  /\ pc = "entry"
  /\ ~(j < size)
  /\ no_new_paths
  /\ pc' = "select"
  /\ UNCHANGED << object, paths, costs, new_path, new_cost, added_path, i, j,
                  size, k, no_new_paths, added_point, curr_path, curr_cost,
                  possible_next_waypoints, best_path_index, result >>
  /\ UNCHANGED snapshot

\* the round ends with a new path: i++
NextRound ==
  /\ pc = "entry"
  /\ ~(j < size)
  /\ ~no_new_paths
  /\ i' = i + 1
  /\ pc' = "round"
  /\ UNCHANGED << object, paths, costs, new_path, new_cost, added_path, j,
                  size, k, no_new_paths, added_point, curr_path, curr_cost,
                  possible_next_waypoints, best_path_index, result >>
  /\ UNCHANGED snapshot

\* the locals of getPath once it has ended: path_queue, start_path and the
\* loop variables no longer exist
LocalsGone ==
  /\ paths' = <<>>
  /\ costs' = <<>>
  /\ new_path' = [wps |-> <<>>, alive |-> FALSE]
  /\ new_cost' = 0
  /\ added_path' = FALSE
  /\ i' = 0
  /\ j' = 0
  /\ size' = 0
  /\ k' = 0
  /\ no_new_paths' = FALSE
  /\ added_point' = FALSE
  /\ curr_path' = NoPathPtr
  /\ curr_cost' = 0
  /\ possible_next_waypoints' = <<>>
  /\ round_paths' = <<>>
  /\ round_costs' = <<>>

\* best_path_index = getBestPathIndex(); return paths[best]->createCopy()
SelectBest ==
  /\ pc = "select"
  /\ paths # <<>>
  /\ best_path_index' = getBestPath(costs)
  /\ \E copy \in ReadCreateCopy(paths[getBestPath(costs)]) : result' = copy
  /\ pc' = "done"
  /\ LocalsGone
  /\ UNCHANGED object

\* the next step reads through a dangling pointer, or takes back() of an
\* empty vector, or front() of an empty queue
UndefinedReadNext ==
  \/ pc = "expand" /\ (IsDangling(curr_path) \/ StoredWaypoints(curr_path) = <<>>)
  \/ pc = "branch" /\ k < Len(possible_next_waypoints) /\ IsDangling(curr_path)
  \/ pc = "select" /\ (paths = <<>> \/ IsDangling(paths[getBestPath(costs)]))
  \/ pc = "entry" /\ j < size /\ paths = <<>>

\* an undefined read faults: the process ends without a result
Trap ==
  /\ UndefinedReadNext
  /\ pc' = "crashed"
  /\ LocalsGone
  /\ UNCHANGED << object, best_path_index, result >>

Next ==
  \/ GetPathStart
  \/ RoundStart
  \/ RoundsExhausted
  \/ Dequeue
  \/ ReinsertCapped
  \/ Expand
  \/ SkipCandidate
  \/ Branch
  \/ EndBranch
  \/ Reinsert
  \/ DropExpanded
  \/ Converged
  \/ NextRound
  \/ SelectBest
  \/ Trap

Spec == Init /\ [][Next]_vars

(***************************************************************************)
(* The caller calls getPath a second time on the same TreeSearch           *)
(***************************************************************************)
CallAgain ==
  /\ pc = "done"
  /\ run = 1
  /\ run' = 2
  /\ first_result' = result
  /\ result' = <<>>
  /\ best_path_index' = 0
  /\ pc' = "call"
  /\ UNCHANGED << cones, waypoints, params, weights, paths, costs, new_path,
                  new_cost, added_path, i, j, size, k, no_new_paths,
                  added_point, curr_path, curr_cost, possible_next_waypoints >>
  /\ UNCHANGED snapshot

NextRepeat == Next \/ CallAgain

SpecRepeat == Init /\ [][NextRepeat]_vars

(***************************************************************************)
(* The PathQueue alone: any sequence of addNewPath calls and of the        *)
(* erase-front steps getPath performs on it                                *)
(***************************************************************************)
QueueCosts == 0..(MaxWeight + 1) \cup {Infinity}

QueuePointers == {StartPathPtr, NewPathPtr(0)}

\* PathQueue(limit): an empty queue
InitQueue ==
  /\ params \in [ field_of_view                   : {2 * Pi},
                  distance                        : {2},
                  triangulation_radius            : {1},
                  triangulation_min_cone_dist     : {0},
                  triangulation_min_waypoint_dist : {1},
                  path_queue_limit                : 1..(MaxQueueLimit + 1),
                  max_search_iterations           : {0},
                  max_waypoints_per_path          : {0},
                  waypoint_field_of_view          : {2 * Pi},
                  waypoint_distance               : {2} ]
  /\ cones = <<>>
  /\ waypoints = <<>>
  /\ weights = <<>>
  /\ paths = <<>>
  /\ costs = <<>>
  /\ new_path = [wps |-> <<>>, alive |-> FALSE]
  /\ new_cost = 0
  /\ added_path = FALSE
  /\ i = 0
  /\ j = 0
  /\ size = 0
  /\ k = 0
  /\ no_new_paths = FALSE
  /\ added_point = FALSE
  /\ curr_path = NoPathPtr
  /\ curr_cost = 0
  /\ possible_next_waypoints = <<>>
  /\ best_path_index = 0
  /\ result = <<>>
  /\ pc = "queue"
  /\ run = 1
  /\ first_result = <<>>
  /\ round_paths = <<>>
  /\ round_costs = <<>>

\* a call addNewPath(p, c); curr_path, new_cost and added_path record the
\* arguments and the value returned
QueueAdd ==
  /\ pc \in {"queue", "added", "erased"}
  /\ \E p \in QueuePointers, c \in QueueCosts :
       LET r == addNewPath(paths, costs, params.path_queue_limit, p, c)
       IN  /\ paths' = r.paths
           /\ costs' = r.costs
           /\ curr_path' = p
           /\ new_cost' = c
           /\ added_path' = r.ret
  /\ pc' = "added"
  /\ UNCHANGED << object, new_path, i, j, size, k, no_new_paths, added_point,
                  curr_cost, possible_next_waypoints, best_path_index, result >>
  /\ UNCHANGED snapshot

\* paths.erase(paths.begin()); costs.erase(costs.begin())
QueueErase ==
  /\ pc \in {"queue", "added", "erased"}
  /\ paths # <<>>
  /\ paths' = Tail(paths)
  /\ costs' = Tail(costs)
  /\ pc' = "erased"
  /\ UNCHANGED << object, new_path, new_cost, added_path, i, j, size, k,
                  no_new_paths, added_point, curr_path, curr_cost,
                  possible_next_waypoints, best_path_index, result >>
  /\ UNCHANGED snapshot

NextQueue == QueueAdd \/ QueueErase

SpecQueue == InitQueue /\ [][NextQueue]_vars

(***************************************************************************)
(* Helpers of the properties                                               *)
(***************************************************************************)
\* getPath is between its first and its last statement
Searching == pc \notin {"call", "queue", "added", "erased", "done", "crashed"}

\* the largest cost of a non-empty cost sequence
MaxCost(cs) == CHOOSE m \in {cs[n] : n \in 1..Len(cs)} :
                 \A n \in 1..Len(cs) : cs[n] <= m

\* the smallest cost of a non-empty cost sequence
MinCost(cs) == CHOOSE m \in {cs[n] : n \in 1..Len(cs)} :
                 \A n \in 1..Len(cs) : m <= cs[n]

\* no two waypoints of the path are at the same position
NoDuplicatePosition(wps) ==
  \A m, n \in 1..Len(wps) :
     (wps[m].x = wps[n].x /\ wps[m].y = wps[n].y) => m = n

(***************************************************************************)
(* C1: for path_queue_limit K >= 1, at every point of getPath (after the   *)
(* first insertion, after every dequeue, addNewPath call and reinsertion)  *)
(* the queue holds at most K entries (and as many costs as paths).         *)
(***************************************************************************)
C1_FrontierBound ==
  Searching => /\ Len(paths) <= params.path_queue_limit
               /\ Len(costs) = Len(paths)

\* a branch was refused by a queue that holds exactly K entries
C1_Witness ==
  /\ pc = "branched"
  /\ ~added_path
  /\ Len(paths) = params.path_queue_limit

(***************************************************************************)
(* C2: no path put into the frontier, and no path returned by getPath,     *)
(* has two waypoints at the same position.                                 *)
(***************************************************************************)
C2_NoDuplicateWaypoints ==
  /\ (pc = "branched" /\ added_path) => NoDuplicatePosition(new_path.wps)
  /\ pc = "done" => NoDuplicatePosition(result)

(***************************************************************************)
(* C3: the waypoint appended for the k-th visible candidate has that       *)
(* candidate's own coordinates, possible_next_waypoints[k].                *)
(***************************************************************************)
C3_AppendsOwnCoordinates ==
  pc = "branched" =>
    LET w == new_path.wps[Len(new_path.wps)]
    IN  /\ w.x = possible_next_waypoints[k + 1][1]
        /\ w.y = possible_next_waypoints[k + 1][2]

(***************************************************************************)
(* C4: on a queue that holds K entries, addNewPath(path, cost) is accepted *)
(* iff cost is strictly below the largest cost; when accepted it overwrites*)
(* exactly the lowest-index entry of largest cost, every other entry keeps *)
(* its path, cost and index, and the size stays K; a cost equal to the     *)
(* largest is refused.                                                     *)
(***************************************************************************)
C4_FullQueueAdmission ==
  [][ (pc' = "added" /\ Len(paths) = params.path_queue_limit) =>
        LET m == MaxCost(costs)
        IN  /\ added_path' = (new_cost' < m)
            /\ Len(paths') = params.path_queue_limit
            /\ Len(costs') = params.path_queue_limit
            /\ added_path' =>
                 \E n \in 1..Len(costs) :
                    /\ costs[n] = m
                    /\ \A q \in 1..(n - 1) : costs[q] < m
                    /\ paths' = [paths EXCEPT ![n] = curr_path']
                    /\ costs' = [costs EXCEPT ![n] = new_cost'] ]_vars

\* a full queue of at least two entries took a path: it stands at the first
\* index, in front of an entry of higher cost that was kept
C4_Witness ==
  /\ pc = "added"
  /\ added_path
  /\ params.path_queue_limit >= 2
  /\ Len(paths) = params.path_queue_limit
  /\ paths[1] = curr_path
  /\ costs[1] = new_cost
  /\ paths[2] # curr_path
  /\ costs[2] > new_cost

(***************************************************************************)
(* C5: when addNewPath returns false the queue is unchanged: the same      *)
(* paths and the same costs, element by element, in the same order.        *)
(***************************************************************************)
C5_RejectLeavesQueue ==
  [][ (pc' = "added" /\ ~added_path') => (paths' = paths /\ costs' = costs) ]_vars

\* a path whose cost equals the largest cost was refused by a full queue
C5_Witness ==
  /\ pc = "added"
  /\ ~added_path
  /\ Len(paths) = params.path_queue_limit
  /\ new_cost = MaxCost(costs)
  /\ new_cost < Infinity

(***************************************************************************)
(* C6: getPath terminates.  Measure is a natural number that every step of *)
(* getPath strictly decreases, so no run has infinitely many steps; a      *)
(* round starts only while i < max_search_iterations; and the round in     *)
(* which no branch was accepted (no entry of the queue was born in it) is  *)
(* the last one, whatever i is.                                            *)
(***************************************************************************)
\* more than twice the steps one dequeued entry can take
EntrySpan == 2 * Len(waypoints) + 4

\* more than the steps one round can take
RoundSpan == (params.path_queue_limit + 2) * EntrySpan

Measure ==
  LET rounds  == (params.max_search_iterations - i) * RoundSpan
      entries == (size - j) * EntrySpan
      cands   == 2 * (Len(possible_next_waypoints) - k)
  IN  CASE pc = "call"     -> (params.max_search_iterations + 1) * RoundSpan + 2
        [] pc = "round"    -> rounds + RoundSpan + 1
        [] pc = "entry"    -> rounds + entries + EntrySpan + 1
        [] pc = "expand"   -> rounds + entries + EntrySpan
        [] pc = "branch"   -> rounds + entries + cands + 3
        [] pc = "branched" -> rounds + entries + cands + 2
        [] pc = "select"   -> 1
        [] OTHER           -> 0

\* no entry of the queue was put into it as a branch in round i
NoBranchAcceptedInRound == \A n \in 1..Len(paths) : paths[n].born # i

C6_Terminates ==
  [][ /\ Measure' < Measure
      /\ Measure' >= 0
      /\ (pc = "round" /\ pc' = "entry") => i < params.max_search_iterations
      /\ (pc = "entry" /\ ~(j < size) /\ NoBranchAcceptedInRound)
           => pc' = "select" ]_vars

\* the search converged over a non-empty pool before the cap on the rounds
C6_Witness ==
  /\ pc = "select"
  /\ no_new_paths
  /\ waypoints # <<>>
  /\ i + 1 < params.max_search_iterations

(***************************************************************************)
(* C7: the path getPath returns is a copy of the queue entry of smallest   *)
(* cost at the end of the loop, the lowest index among equals.             *)
(***************************************************************************)
C7_ReturnsBestEntry ==
  [][ (pc = "select" /\ pc' = "done") =>
        /\ costs[best_path_index'] = MinCost(costs)
        /\ \A n \in 1..(best_path_index' - 1) : costs[n] > MinCost(costs)
        /\ ~IsDangling(paths[best_path_index'])
        /\ result' = StoredWaypoints(paths[best_path_index']) ]_vars

(***************************************************************************)
(* C8: with zero cones the pool is empty and getPath returns the empty     *)
(* start path: no branch is created, and the call ends by returning.       *)
(***************************************************************************)
C8_ZeroConesEmptyPath ==
  cones = <<>> =>
    /\ waypoints = <<>>
    /\ pc \notin {"branched", "crashed"}
    /\ pc = "done" => result = start_path

(***************************************************************************)
(* C9: two calls of getPath on the same cones and parameters return the    *)
(* same path.                                                              *)
(***************************************************************************)
C9_SameResultOnRepeat ==
  (run = 2 /\ pc = "done") => result = first_result

(***************************************************************************)
(* C10: an entry dequeued in a round was in the queue when the round       *)
(* started: it was not put into the queue as a branch in that round.       *)
(***************************************************************************)
C10_OnlySnapshotDequeued ==
  pc = "expand" => curr_path.born < i

(***************************************************************************)
(* C11: every pointer the queue holds refers to a Path that is alive, at   *)
(* every point of getPath and when the best entry is selected.             *)
(***************************************************************************)
C11_FrontierEntriesAlive ==
  Searching => \A n \in 1..Len(paths) : ~IsDangling(paths[n])

(***************************************************************************)
(* C12: no two entries of the queue refer to the same storage, and the     *)
(* branch being built does not occupy the storage of an entry of the queue *)
(* other than itself, nor that of the path it was copied from.             *)
(***************************************************************************)
C12_NoSharedStorage ==
  Searching =>
    /\ \A m, n \in 1..Len(paths) : m # n => paths[m].addr # paths[n].addr
    /\ new_path.alive =>
         /\ curr_path.addr # "new_path"
         /\ \A n \in 1..Len(paths) :
              paths[n].addr = "new_path" => paths[n] = NewPathPtr(i) /\ added_path

(***************************************************************************)
(* The constructor and filterLocal alone: a TreeSearch is built from cones *)
(* at several positions, then its pool is filtered from the origin with    *)
(* heading 0                                                               *)
(***************************************************************************)
GeometryConeDomain ==
  {[x |-> Num(0), y |-> Num(0)], [x |-> Num(1), y |-> Num(0)],
   [x |-> Num(3), y |-> Num(0)]}

GeometryConeSeqs == UNION {[1..n -> GeometryConeDomain] : n \in 0..MaxGeometryCones}

GeometryParamsDomain ==
  [ field_of_view                   : {2 * Pi},
    distance                        : {2},
    triangulation_radius            : {1, 2},
    triangulation_min_cone_dist     : {0, 1},
    triangulation_min_waypoint_dist : {0, 1, 2},
    path_queue_limit                : {1},
    max_search_iterations           : {0},
    max_waypoints_per_path          : {0},
    waypoint_field_of_view          : {Pi, 2 * Pi},
    waypoint_distance               : {1, 2} ]

\* the arguments of TreeSearch::TreeSearch, the constructor not yet run
InitGeometry ==
  /\ params \in GeometryParamsDomain
  /\ cones \in GeometryConeSeqs
  /\ waypoints = <<>>
  /\ weights = <<>>
  /\ paths = <<>>
  /\ costs = <<>>
  /\ new_path = [wps |-> <<>>, alive |-> FALSE]
  /\ new_cost = 0
  /\ added_path = FALSE
  /\ i = 0
  /\ j = 0
  /\ size = 0
  /\ k = 0
  /\ no_new_paths = FALSE
  /\ added_point = FALSE
  /\ curr_path = NoPathPtr
  /\ curr_cost = 0
  /\ possible_next_waypoints = <<>>
  /\ best_path_index = 0
  /\ result = <<>>
  /\ pc = "construct"
  /\ run = 1
  /\ first_result = <<>>
  /\ round_paths = <<>>
  /\ round_costs = <<>>

\* TreeSearch::TreeSearch: this->cones = filterLocal(cones, ...);
\* this->waypoints = triangulate(this->cones)
Construct ==
  /\ pc = "construct"
  /\ cones' = FilterConesGlobal(cones, params.field_of_view, params.distance)
  /\ waypoints' = triangulate(cones', params.triangulation_radius,
                              params.triangulation_min_cone_dist,
                              params.triangulation_min_waypoint_dist)
  /\ pc' = "built"
  /\ UNCHANGED << params, weights, run, first_result, paths, costs, new_path,
                  new_cost, added_path, i, j, size, k, no_new_paths,
                  added_point, curr_path, curr_cost, possible_next_waypoints,
                  best_path_index, result >>
  /\ UNCHANGED snapshot

\* filterLocal(this->waypoints, waypoint_field_of_view, waypoint_distance,
\*             0, 0, 0)
FilterFromOrigin ==
  /\ pc = "built"
  /\ possible_next_waypoints' =
       FilterPoints(waypoints, params.waypoint_field_of_view,
                    params.waypoint_distance, Num(0), Num(0), 0)
  /\ pc' = "filtered"
  /\ UNCHANGED << object, paths, costs, new_path, new_cost, added_path, i, j,
                  size, k, no_new_paths, added_point, curr_path, curr_cost,
                  best_path_index, result >>
  /\ UNCHANGED snapshot

NextGeometry == Construct \/ FilterFromOrigin

SpecGeometry == InitGeometry /\ [][NextGeometry]_vars

\* the i-th candidate on the ring around a cone
RingCandidate(cone, radius, n) ==
  << NumAdd(cone.x, RadiusCos(radius, n)), NumAdd(cone.y, RadiusSin(radius, n)) >>

\* the point is an element of the sequence
InSeq(p, seq) == \E n \in 1..Len(seq) : seq[n] = p

(***************************************************************************)
(* C13: every point of the pool the constructor builds is strictly farther *)
(* than triangulation_min_cone_dist from every cone and strictly farther   *)
(* than triangulation_min_waypoint_dist from every point accepted before   *)
(* it; a ring candidate at exactly triangulation_min_cone_dist from a cone *)
(* is not in the pool; any two pool points at different indices are        *)
(* strictly more than triangulation_min_waypoint_dist apart.               *)
(***************************************************************************)
C13_PoolKeepsItsDistances ==
  pc \in {"built", "filtered"} =>
    /\ \A n \in 1..Len(waypoints) :
         /\ \A c \in 1..Len(cones) :
              ~DistLeq(NumSub(waypoints[n][1], cones[c].x),
                       NumSub(waypoints[n][2], cones[c].y),
                       params.triangulation_min_cone_dist)
         /\ \A m \in 1..Len(waypoints) :
              m # n =>
                ~DistLeq(NumSub(waypoints[n][1], waypoints[m][1]),
                         NumSub(waypoints[n][2], waypoints[m][2]),
                         params.triangulation_min_waypoint_dist)
    /\ \A c, d \in 1..Len(cones), n \in 0..(RingSize - 1) :
         LET p == RingCandidate(cones[c], params.triangulation_radius, n)
         IN  DistEq(NumSub(p[1], cones[d].x), NumSub(p[2], cones[d].y),
                    params.triangulation_min_cone_dist)
               => ~InSeq(p, waypoints)

\* two cones gave a non-empty pool, and a ring candidate that lies at exactly
\* the (positive) minimum distance from a cone was left out of it
C13_Witness ==
  /\ pc = "built"
  /\ Len(cones) = 2
  /\ waypoints # <<>>
  /\ params.triangulation_min_cone_dist > 0
  /\ \E c, d \in 1..Len(cones), n \in 0..(RingSize - 1) :
       LET p == RingCandidate(cones[c], params.triangulation_radius, n)
       IN  /\ DistEq(NumSub(p[1], cones[d].x), NumSub(p[2], cones[d].y),
                     params.triangulation_min_cone_dist)
           /\ ~InSeq(p, waypoints)

\* the points of the sequence within distance d of the origin, in order
WithinDistance(points, d) ==
  SelectSeq(points, LAMBDA p : DistLeq(p[1], p[2], d))

\* the points of the sequence within distance d of the origin that are not
\* behind it (x >= 0: seen at an angle in [-pi/2, pi/2]), in order
WithinDistanceAhead(points, d) ==
  SelectSeq(points, LAMBDA p : DistLeq(p[1], p[2], d) /\ NumSign(p[1]) >= 0)

(***************************************************************************)
(* C14, as amended: from the origin with heading 0, filterLocal with       *)
(* fov = 2*pi returns exactly the points at distance <= D, whatever their  *)
(* angle (the points at angle pi included); with fov = pi it returns       *)
(* exactly the points at distance <= D seen at an angle in [-pi/2, pi/2].  *)
(***************************************************************************)
C14_FilterFromOrigin ==
  pc = "filtered" =>
    /\ params.waypoint_field_of_view = 2 * Pi =>
         possible_next_waypoints =
           WithinDistance(waypoints, params.waypoint_distance)
    /\ params.waypoint_field_of_view = Pi =>
         possible_next_waypoints =
           WithinDistanceAhead(waypoints, params.waypoint_distance)

\* with fov = 2*pi a point at angle pi was returned and a point farther than
\* D was not
C14_Witness ==
  /\ pc = "filtered"
  /\ params.waypoint_field_of_view = 2 * Pi
  /\ \E n \in 1..Len(possible_next_waypoints) :
       /\ NumSign(possible_next_waypoints[n][1]) < 0
       /\ NumSign(possible_next_waypoints[n][2]) = 0
  /\ Len(possible_next_waypoints) < Len(waypoints)

(***************************************************************************)
(* C14, as stated: from the origin with heading 0, filterLocal with        *)
(* fov = pi returns exactly the points at distance <= D, whatever their    *)
(* angle.                                                                  *)
(***************************************************************************)
C14_HalfTurnKeepsAllAngles ==
  (pc = "filtered" /\ params.waypoint_field_of_view = Pi) =>
    possible_next_waypoints = WithinDistance(waypoints, params.waypoint_distance)

(***************************************************************************)
(* C15: for K >= 1, processing a dequeued entry never leaves the queue     *)
(* smaller than it was before the dequeue: once an entry is processed the  *)
(* queue holds at least as many entries as when the round started (size),  *)
(* while an entry is being processed at least size - 1, and at least size  *)
(* as soon as one of its branches is accepted; a reinsertion (of a capped  *)
(* path or of a path with no accepted branch) is always accepted and puts  *)
(* the path at the back with its cost; the queue is not empty when the     *)
(* best entry is selected.                                                 *)
(***************************************************************************)
C15_FrontierNeverShrinks ==
  /\ [](/\ pc = "entry" => Len(paths) >= size
        /\ pc \in {"expand", "branch", "branched"} =>
             /\ Len(paths) >= size - 1
             /\ added_point => Len(paths) >= size
        /\ pc = "select" => paths # <<>>)
  /\ [][ (pc \in {"expand", "branch"} /\ pc' = "entry" /\ ~added_point) =>
           /\ paths' = Append(paths, curr_path)
           /\ costs' = Append(costs, curr_cost) ]_vars

\* a round over two entries ended and both were reinserted
C15_Witness ==
  /\ pc = "entry"
  /\ size = 2
  /\ j = size
  /\ no_new_paths
  /\ Len(paths) = 2

(***************************************************************************)
(* C16: a dequeued path whose waypoint count exceeds                       *)
(* max_waypoints_per_path produces no branch: it goes back into the queue  *)
(* with its cost and the convergence flag is not touched, in the round it  *)
(* was created in and in every later round.  Every branch holds at least   *)
(* one waypoint, so with max_waypoints_per_path = 0 every dequeued branch  *)
(* is such a path.                                                         *)
(***************************************************************************)
C16_CappedPathNeverBranches ==
  [][ (/\ pc = "expand"
       /\ curr_path.addr = "new_path"
       /\ params.max_waypoints_per_path = 0)
        => /\ pc' = "entry"
           /\ paths' = Append(paths, curr_path)
           /\ costs' = Append(costs, curr_cost)
           /\ no_new_paths' = no_new_paths ]_vars

(***************************************************************************)
(* C17: every path handed to the queue and the path getPath returns has at *)
(* most max_waypoints_per_path + 1 waypoints.                              *)
(***************************************************************************)
C17_PathLengthBound ==
  /\ (pc = "branched" /\ added_path) =>
       Len(new_path.wps) <= params.max_waypoints_per_path + 1
  /\ pc = "done" => Len(result) <= params.max_waypoints_per_path + 1

\* the sequence with its first n elements moved to the back
Rotated(seq, n) == SubSeq(seq, n + 1, Len(seq)) \o SubSeq(seq, 1, n)

(***************************************************************************)
(* C18: in a round in which no branch has been accepted, after j entries   *)
(* the queue is the queue of the round's start with its first j entries    *)
(* moved to the back, and when the round ends (j = size) it is the queue   *)
(* of the round's start: same entries, same costs, same order.             *)
(***************************************************************************)
C18_IdleRoundKeepsFrontier ==
  (pc = "entry" /\ no_new_paths) =>
    /\ paths = Rotated(round_paths, j)
    /\ costs = Rotated(round_costs, j)
    /\ ~(j < size) => (paths = round_paths /\ costs = round_costs)

\* a round over two entries of different costs ended without a branch
C18_Witness ==
  /\ pc = "entry"
  /\ no_new_paths
  /\ size = 2
  /\ j = size
  /\ round_costs[1] # round_costs[2]

(***************************************************************************)
(* C19: whenever getPath takes the last waypoint of the dequeued path as   *)
(* the pose, that path has at least one waypoint; the start path is never  *)
(* asked for its last waypoint while it is empty.                          *)
(***************************************************************************)
C19_PoseFromNonEmptyPath ==
  [][ (pc = "expand" /\ pc' = "branch") =>
        /\ curr_path # StartPathPtr
        /\ ~IsDangling(curr_path) => StoredWaypoints(curr_path) # <<>> ]_vars

====
